---- MODULE Spec2Model ----
(***************************************************************************)
(* The item CRUD resource of fastapi_system, in its three storage variants *)
(*   "main"            src/main.py             (items_db, item_id_counter) *)
(*   "response_models" src/response_models.py  (fake_db, next_id)          *)
(*   "app"             src/app/routers/items.py over the items table       *)
(* One process runs one variant; a request is served from validation of    *)
(* its body to the filtering of its response in one step.                  *)
(*                                                                         *)
(* Representation.  Text is a TLA+ string.  An optional value (str | None, *)
(* a nullable column) is a sequence of length at most one: <<>> is None.   *)
(* price is a whole number of currency units; cost_price = price * 0.6 is  *)
(* kept exactly, in tenths of a unit (CostPrice).                          *)
(***************************************************************************)
EXTENDS Integers, Sequences, FiniteSets, TLC

VARIABLES
    variant,          \* which application this process runs
    items_db,         \* src/main.py: the in-memory list
    item_id_counter,  \* src/main.py: the global id counter
    fake_db,          \* src/response_models.py: the in-memory list
    next_id,          \* src/response_models.py: the global id counter
    items,            \* src/app: the rows of table "items", in heap order
    items_id_seq,     \* src/app: the next value of the serial primary key
    req,              \* the request served last
    resp,             \* the response to it
    birth,            \* history: the records as stored by create, in order
    created,          \* history: the items of the create responses of "app",
                      \*          each until its id is updated or deleted
    deleted,          \* history: the ids whose delete succeeded
    workers,          \* thread pool: the create calls of main.py and
                      \*          response_models.py in progress
    calls,            \* event loop: the requests of src/app in progress
    sessions,         \* src/app: the sessions AsyncSessionLocal() has made
    sem,              \* co-async-await.py: the semaphore (value, waiters)
    task_pc           \* co-async-await.py: where each task is

stores == <<items_db, item_id_counter, fake_db, next_id, items, items_id_seq>>

\* what the requests served one at a time leave alone
concurrent == <<workers, calls, sessions, sem, task_pc>>

vars == <<variant, items_db, item_id_counter, fake_db, next_id, items,
          items_id_seq, req, resp, birth, created, deleted, concurrent>>

-----------------------------------------------------------------------------
(* Bounds and inputs *)

\* creates served per process lifetime
MaxCreates == 2

\* the id no create of a bounded run ever assigns (spec.md scenario: 999)
AbsentId == 999

ItemIds == (1..MaxCreates) \cup {AbsentId}

Variants == {"main", "response_models", "app"}

RECURSIVE Repeat(_, _)
Repeat(s, n) ==
    IF n = 0 THEN ""
    ELSE LET half == Repeat(s, n \div 2)
         IN  IF n % 2 = 0 THEN half \o half ELSE half \o half \o s

\* Field(min_length=3), Field(gt=0), Field(max_length=200)
MinNameLen == 3
MinPriceExclusive == 0
MaxDescriptionLen == 200

Body(n, p, d, q) == [name |-> n, price |-> p, description |-> d, stock_quantity |-> q]

\* request bodies that satisfy the constraints, the boundary cases included
ValidBodies ==
    { Body("Widget", 10, <<"basic">>, 0),
      Body("Gadget", 20, <<>>, 5),
      Body(Repeat("n", MinNameLen), 1, <<Repeat("d", MaxDescriptionLen)>>, 0) }

\* request bodies that break one constraint each, and one that breaks all
InvalidBodies ==
    { Body(Repeat("n", MinNameLen - 1), 10, <<>>, 0),
      Body("Widget", MinPriceExclusive, <<>>, 0),
      Body("Widget", 10, <<Repeat("d", MaxDescriptionLen + 1)>>, 0),
      Body("", -5, <<Repeat("d", MaxDescriptionLen + 1)>>, 5) }

Bodies == ValidBodies \cup InvalidBodies

-----------------------------------------------------------------------------
(* Models: app/models.py, main.py, response_models.py, app/db_models.py *)

SUPPLIER_SECRET == "ACME-42-PRIVATE"

\* price * 0.6, in tenths of a unit
CostPrice(price) == price * 6

ConstraintErrors(item) ==
    (IF Len(item.name) < MinNameLen
        THEN {[loc |-> "name", type |-> "string_too_short"]} ELSE {})
    \cup (IF item.price > MinPriceExclusive
        THEN {} ELSE {[loc |-> "price", type |-> "greater_than"]})
    \cup (IF item.description # <<>> /\ Len(item.description[1]) > MaxDescriptionLen
        THEN {[loc |-> "description", type |-> "string_too_long"]} ELSE {})

\* app/models.py: the errors pydantic finds in a request body
ItemCreate(item) == ConstraintErrors(item)

\* main.py: the same constraints, without the stock_quantity field
main_ItemCreate(item) == ConstraintErrors(item)

\* response_models.py: ItemCreate declares the types only
response_models_ItemCreate(item) == {}

\* the 422 FastAPI answers when the body does not validate
RequestValidationError(errors) == [status |-> 422, body |-> [detail |-> errors]]

\* raise HTTPException(status_code, detail)
HTTPException(status_code, detail) == [status |-> status_code, body |-> [detail |-> detail]]

\* a response with a body
Response(status_code, body) == [status |-> status_code, body |-> body]

\* a filter that lets every field through
ItemInPublic_leaking(obj) == obj

\* the public output shape, as constructor and as response_model filter
ItemInPublic(obj) ==
    [id |-> obj.id, name |-> obj.name, price |-> obj.price, description |-> obj.description]

\* response_model=list[ItemInPublic]
ListOfItemInPublic(objs) == [k \in 1..Len(objs) |-> ItemInPublic(objs[k])]

\* response_model=CreateItemResponse
CreateItemResponse(obj) == [item |-> ItemInPublic(obj.item), message |-> obj.message]

\* the row create stores: stock_quantity takes the column default, created_at is NULL
ItemDB(id, name, price, description, cost_price, supplier_secret) ==
    [id |-> id, name |-> name, price |-> price, description |-> description,
     cost_price |-> cost_price, supplier_secret |-> supplier_secret,
     stock_quantity |-> 0, created_at |-> <<>>]

\* main.py: the stored record
ItemInDB(id, name, price, description, cost_price, supplier_secret) ==
    [id |-> id, name |-> name, price |-> price, description |-> description,
     cost_price |-> cost_price, supplier_secret |-> supplier_secret]

\* response_models.py: the stored record, and the response of create
Item(id, name, price, description) ==
    [id |-> id, name |-> name, price |-> price, description |-> description]

ItemResponse(id, name, price, message) ==
    [id |-> id, name |-> name, price |-> price, message |-> message]

\* an id assignment that reuses the id after the largest one stored
serial_id_reusing(rows, seq) ==
    IF rows = <<>> THEN 1
    ELSE (CHOOSE m \in {rows[k].id : k \in 1..Len(rows)} :
            \A k \in 1..Len(rows) : rows[k].id <= m) + 1

\* a serial primary key: the id an INSERT is given
serial_id(rows, seq) == seq

\* the sequence after an INSERT
nextval(seq) == seq + 1

\* a lookup without its where clause
scalar_first(rows, item_id) == IF rows = <<>> THEN 0 ELSE 1

\* select(ItemDB).where(ItemDB.id == item_id) ... scalar_one_or_none():
\* the position of the row, 0 for None
scalar_one_or_none(rows, item_id) ==
    LET hit == {k \in 1..Len(rows) : rows[k].id = item_id}
    IN  IF hit = {} THEN 0 ELSE CHOOSE k \in hit : TRUE

\* f"Item with ID {item_id} does not exist"
NotFoundDetail(item_id) == "Item with ID " \o ToString(item_id) \o " does not exist"

\* f"Item '{item.name}' created successfully"
CreatedMessage(name) == "Item '" \o name \o "' created successfully"

Remove(s, k) == SubSeq(s, 1, k - 1) \o SubSeq(s, k + 1, Len(s))

-----------------------------------------------------------------------------
(* src/app/routers/items.py: each handler, from the validation of the      *)
(* request body (the ItemCreate parameter) to the response_model filter    *)

Outcome(rows, seq, response) == [items |-> rows, seq |-> seq, resp |-> response]

create_item(rows, seq, item) ==
    IF ItemCreate(item) # {}
    THEN Outcome(rows, seq, RequestValidationError(ItemCreate(item)))
    ELSE LET new_item == ItemDB(serial_id(rows, seq), item.name, item.price,
                                item.description, CostPrice(item.price), SUPPLIER_SECRET)
         IN  Outcome(Append(rows, new_item), nextval(seq),
                     Response(201, CreateItemResponse(
                         [item |-> ItemInPublic(new_item),
                          message |-> CreatedMessage(item.name)])))

get_items(rows, seq) ==
    Outcome(rows, seq,
            Response(200, ListOfItemInPublic([k \in 1..Len(rows) |-> ItemInPublic(rows[k])])))

\* a not-found branch taken after a row was written
item_not_found_after_write(rows, seq, item_id) ==
    Outcome(Append(rows, ItemDB(item_id, "", 0, <<>>, 0, SUPPLIER_SECRET)), seq,
            HTTPException(404, NotFoundDetail(item_id)))

\* if item is None: raise HTTPException(404, ...)
item_not_found(rows, seq, item_id) ==
    Outcome(rows, seq, HTTPException(404, NotFoundDetail(item_id)))

get_item(rows, seq, item_id) ==
    LET k == scalar_one_or_none(rows, item_id)
    IN  IF k = 0 THEN item_not_found(rows, seq, item_id)
        ELSE Outcome(rows, seq, Response(200, ItemInPublic(ItemInPublic(rows[k]))))

\* attribute assignments that also overwrite supplier_secret
changed_attributes_and_secret(existing_item, item_update) ==
    [existing_item EXCEPT !.name = item_update.name,
                          !.price = item_update.price,
                          !.description = item_update.description,
                          !.cost_price = CostPrice(item_update.price),
                          !.supplier_secret = item_update.name]

\* attribute assignments that also copy the client's stock_quantity
changed_attributes_with_stock(existing_item, item_update) ==
    [existing_item EXCEPT !.name = item_update.name,
                          !.price = item_update.price,
                          !.description = item_update.description,
                          !.cost_price = CostPrice(item_update.price),
                          !.stock_quantity = item_update.stock_quantity]

\* attribute assignments that leave cost_price as it was
changed_attributes_keeping_cost(existing_item, item_update) ==
    [existing_item EXCEPT !.name = item_update.name,
                          !.price = item_update.price,
                          !.description = item_update.description]

\* the attribute assignments of update_item
changed_attributes(existing_item, item_update) ==
    [existing_item EXCEPT !.name = item_update.name,
                          !.price = item_update.price,
                          !.description = item_update.description,
                          !.cost_price = CostPrice(item_update.price)]

\* the body of update_item, entered once the request body has validated
update_item_body(rows, seq, item_id, item_update) ==
    LET k == scalar_one_or_none(rows, item_id)
    IN  IF k = 0 THEN item_not_found(rows, seq, item_id)
        ELSE LET existing_item == changed_attributes(rows[k], item_update)
             IN  Outcome([rows EXCEPT ![k] = existing_item], seq,
                         Response(200, ItemInPublic(ItemInPublic(existing_item))))

\* an update that validates the body only once the row is found
update_item_lookup_first(rows, seq, item_id, item_update) ==
    IF scalar_one_or_none(rows, item_id) = 0 THEN item_not_found(rows, seq, item_id)
    ELSE IF ItemCreate(item_update) # {}
    THEN Outcome(rows, seq, RequestValidationError(ItemCreate(item_update)))
    ELSE update_item_body(rows, seq, item_id, item_update)

\* update_item: the ItemCreate parameter is validated before the body runs
update_item(rows, seq, item_id, item_update) ==
    IF ItemCreate(item_update) # {}
    THEN Outcome(rows, seq, RequestValidationError(ItemCreate(item_update)))
    ELSE update_item_body(rows, seq, item_id, item_update)

delete_item(rows, seq, item_id) ==
    LET k == scalar_one_or_none(rows, item_id)
    IN  IF k = 0 THEN item_not_found(rows, seq, item_id)
        ELSE Outcome(Remove(rows, k), seq, Response(204, <<>>))

-----------------------------------------------------------------------------
(* src/main.py *)

\* a counter that is never incremented
counter_stuck(counter) == counter

\* item_id_counter += 1
incremented(counter) == counter + 1

main_create_item(db, counter, item) ==
    IF main_ItemCreate(item) # {}
    THEN Outcome(db, counter, RequestValidationError(main_ItemCreate(item)))
    ELSE LET new_item == ItemInDB(counter, item.name, item.price, item.description,
                                  CostPrice(item.price), SUPPLIER_SECRET)
         IN  Outcome(Append(db, new_item), incremented(counter),
                     Response(200, ItemInPublic(new_item)))

main_get_items(db, counter) == Outcome(db, counter, Response(200, ListOfItemInPublic(db)))

-----------------------------------------------------------------------------
(* src/response_models.py *)

response_models_create_item(db, counter, item) ==
    IF response_models_ItemCreate(item) # {}
    THEN Outcome(db, counter, RequestValidationError(response_models_ItemCreate(item)))
    ELSE LET new_item == Item(counter, item.name, item.price, item.description)
             response == ItemResponse(counter, item.name, item.price,
                                      CreatedMessage(item.name))
         IN  Outcome(Append(db, new_item), counter + 1, Response(200, response))

response_models_get_items(db, counter) ==
    Outcome(db, counter,
            Response(200, [k \in 1..Len(db) |->
                              Item(db[k].id, db[k].name, db[k].price, db[k].description)]))

response_models_get_item(db, counter, item_id) ==
    LET hit == {k \in 1..Len(db) : db[k].id = item_id}
    IN  IF hit = {} THEN Outcome(db, counter, HTTPException(404, "Item not found"))
        ELSE LET k == CHOOSE j \in hit : \A i \in hit : j <= i
             IN  Outcome(db, counter,
                         Response(200, Item(db[k].id, db[k].name, db[k].price,
                                            db[k].description)))

-----------------------------------------------------------------------------
(* The process: one request at a time *)

Init ==
    /\ variant \in Variants
    /\ items_db = <<>>
    /\ item_id_counter = 1
    /\ fake_db = <<>>
    /\ next_id = 1
    /\ items = <<>>
    /\ items_id_seq = 1
    /\ req = [op |-> "none"]
    /\ resp = [status |-> 0]
    /\ birth = <<>>
    /\ created = {}
    /\ deleted = {}
    /\ workers = <<>>
    /\ calls = <<>>
    /\ sessions = <<>>
    /\ sem = [value |-> 0, waiters |-> <<>>]
    /\ task_pc = <<>>

Last(s) == s[Len(s)]

AppStep(r, request) ==
    /\ items' = r.items
    /\ items_id_seq' = r.seq
    /\ req' = request
    /\ resp' = r.resp
    /\ UNCHANGED <<variant, items_db, item_id_counter, fake_db, next_id, concurrent>>

CreateItem ==
    /\ variant = "app"
    /\ items_id_seq <= MaxCreates
    /\ \E item \in Bodies :
         LET r == create_item(items, items_id_seq, item)
         IN  /\ AppStep(r, [op |-> "create", item |-> item])
             /\ birth' = IF r.resp.status = 201 THEN Append(birth, Last(r.items)) ELSE birth
             /\ created' = IF r.resp.status = 201 THEN created \cup {r.resp.body.item}
                           ELSE created
             /\ deleted' = deleted

GetItems ==
    /\ variant = "app"
    /\ AppStep(get_items(items, items_id_seq), [op |-> "list"])
    /\ UNCHANGED <<birth, created, deleted>>

GetItem ==
    /\ variant = "app"
    /\ \E item_id \in ItemIds :
         AppStep(get_item(items, items_id_seq, item_id), [op |-> "get", id |-> item_id])
    /\ UNCHANGED <<birth, created, deleted>>

UpdateItem ==
    /\ variant = "app"
    /\ \E item_id \in ItemIds, item \in Bodies :
         LET r == update_item(items, items_id_seq, item_id, item)
         IN  /\ AppStep(r, [op |-> "update", id |-> item_id, item |-> item])
             /\ created' = IF r.resp.status = 200 THEN {c \in created : c.id # item_id}
                           ELSE created
    /\ UNCHANGED <<birth, deleted>>

DeleteItem ==
    /\ variant = "app"
    /\ \E item_id \in ItemIds :
         LET r == delete_item(items, items_id_seq, item_id)
         IN  /\ AppStep(r, [op |-> "delete", id |-> item_id])
             /\ created' = IF r.resp.status = 204 THEN {c \in created : c.id # item_id}
                           ELSE created
             /\ deleted' = IF r.resp.status = 204 THEN deleted \cup {item_id} ELSE deleted
    /\ UNCHANGED birth

MainStep(r, request) ==
    /\ items_db' = r.items
    /\ item_id_counter' = r.seq
    /\ req' = request
    /\ resp' = r.resp
    /\ UNCHANGED <<variant, fake_db, next_id, items, items_id_seq, created, deleted,
                   concurrent>>

MainCreateItem ==
    /\ variant = "main"
    /\ item_id_counter <= MaxCreates
    /\ \E item \in Bodies :
         LET r == main_create_item(items_db, item_id_counter, item)
         IN  /\ MainStep(r, [op |-> "create", item |-> item])
             /\ birth' = IF r.resp.status = 200 THEN Append(birth, Last(r.items)) ELSE birth

MainGetItems ==
    /\ variant = "main"
    /\ MainStep(main_get_items(items_db, item_id_counter), [op |-> "list"])
    /\ UNCHANGED birth

ResponseModelsStep(r, request) ==
    /\ fake_db' = r.items
    /\ next_id' = r.seq
    /\ req' = request
    /\ resp' = r.resp
    /\ UNCHANGED <<variant, items_db, item_id_counter, items, items_id_seq, created, deleted,
                   concurrent>>

ResponseModelsCreateItem ==
    /\ variant = "response_models"
    /\ next_id <= MaxCreates
    /\ \E item \in Bodies :
         LET r == response_models_create_item(fake_db, next_id, item)
         IN  /\ ResponseModelsStep(r, [op |-> "create", item |-> item])
             /\ birth' = IF r.resp.status = 200 THEN Append(birth, Last(r.items)) ELSE birth

ResponseModelsGetItems ==
    /\ variant = "response_models"
    /\ ResponseModelsStep(response_models_get_items(fake_db, next_id), [op |-> "list"])
    /\ UNCHANGED birth

ResponseModelsGetItem ==
    /\ variant = "response_models"
    /\ \E item_id \in ItemIds :
         ResponseModelsStep(response_models_get_item(fake_db, next_id, item_id),
                            [op |-> "get", id |-> item_id])
    /\ UNCHANGED birth

Next ==
    \/ CreateItem
    \/ GetItems
    \/ GetItem
    \/ UpdateItem
    \/ DeleteItem
    \/ MainCreateItem
    \/ MainGetItems
    \/ ResponseModelsCreateItem
    \/ ResponseModelsGetItems
    \/ ResponseModelsGetItem

Spec == Init /\ [][Next]_vars

-----------------------------------------------------------------------------
(* The same process, with the heap order of table "items" left to the      *)
(* database: select(ItemDB) has no ORDER BY and returns the rows in heap   *)
(* order, and an UPDATE writes a new row version, in the slot of the old   *)
(* one or after every other row.                                           *)

HeapAfterUpdate(before, after, item_id) ==
    IF before = after THEN {after}
    ELSE LET k == scalar_one_or_none(after, item_id)
         IN  {after, Append(Remove(after, k), after[k])}

UpdateItemHeap ==
    /\ variant = "app"
    /\ \E item_id \in ItemIds, item \in Bodies :
         LET r == update_item(items, items_id_seq, item_id, item)
         IN  /\ \E heap \in HeapAfterUpdate(items, r.items, item_id) :
                  AppStep([r EXCEPT !.items = heap],
                          [op |-> "update", id |-> item_id, item |-> item])
             /\ created' = IF r.resp.status = 200 THEN {c \in created : c.id # item_id}
                           ELSE created
    /\ UNCHANGED <<birth, deleted>>

NextHeap ==
    \/ CreateItem
    \/ GetItems
    \/ GetItem
    \/ UpdateItemHeap
    \/ DeleteItem
    \/ MainCreateItem
    \/ MainGetItems
    \/ ResponseModelsCreateItem
    \/ ResponseModelsGetItems
    \/ ResponseModelsGetItem

SpecHeap == Init /\ [][NextHeap]_vars

-----------------------------------------------------------------------------
(* The thread pool.  create_item of main.py and of response_models.py is a *)
(* plain def: FastAPI validates the body, then runs the function on a pool *)
(* thread, and the threads of several requests interleave between any two  *)
(* accesses to the module globals.  Each step below holds one access.      *)

\* create calls that run on pool threads at the same time
MaxWorkers == 2

Worker(pc, item, new_item, tmp, response) ==
    [pc |-> pc, item |-> item, new_item |-> new_item, tmp |-> tmp, resp |-> response]

SetWorker(w, record) ==
    /\ workers' = [workers EXCEPT ![w] = record]
    /\ UNCHANGED <<variant, items, items_id_seq, req, resp, birth, created, deleted,
                   calls, sessions, sem, task_pc>>

\* the request arrives: item: ItemCreate is validated before the function is called
MainAccept ==
    /\ variant = "main"
    /\ Len(workers) < MaxWorkers
    /\ \E item \in Bodies :
         workers' = Append(workers,
            IF main_ItemCreate(item) # {}
            THEN Worker("done", item, <<>>, 0, RequestValidationError(main_ItemCreate(item)))
            ELSE Worker("build", item, <<>>, 0, [status |-> 0]))
    /\ UNCHANGED <<variant, stores, req, resp, birth, created, deleted,
                   calls, sessions, sem, task_pc>>

\* new_item = ItemInDB(id=item_id_counter, ...)
MainBuild(w) ==
    /\ variant = "main"
    /\ workers[w].pc = "build"
    /\ LET item == workers[w].item
           new_item == ItemInDB(item_id_counter, item.name, item.price, item.description,
                                CostPrice(item.price), SUPPLIER_SECRET)
       IN  SetWorker(w, [workers[w] EXCEPT !.pc = "append", !.new_item = <<new_item>>])
    /\ UNCHANGED stores

\* items_db.append(new_item)
MainAppend(w) ==
    /\ variant = "main"
    /\ workers[w].pc = "append"
    /\ items_db' = Append(items_db, workers[w].new_item[1])
    /\ SetWorker(w, [workers[w] EXCEPT !.pc = "load"])
    /\ UNCHANGED <<item_id_counter, fake_db, next_id>>

\* item_id_counter += 1: the global is read ...
MainLoad(w) ==
    /\ variant = "main"
    /\ workers[w].pc = "load"
    /\ SetWorker(w, [workers[w] EXCEPT !.pc = "store", !.tmp = item_id_counter])
    /\ UNCHANGED stores

\* ... and written; return new_item, filtered by response_model=ItemInPublic
MainStore(w) ==
    /\ variant = "main"
    /\ workers[w].pc = "store"
    /\ item_id_counter' = incremented(workers[w].tmp)
    /\ SetWorker(w, [workers[w] EXCEPT !.pc = "done",
                        !.resp = Response(200, ItemInPublic(workers[w].new_item[1]))])
    /\ UNCHANGED <<items_db, fake_db, next_id>>

ResponseModelsAccept ==
    /\ variant = "response_models"
    /\ Len(workers) < MaxWorkers
    /\ \E item \in Bodies :
         workers' = Append(workers,
            IF response_models_ItemCreate(item) # {}
            THEN Worker("done", item, <<>>, 0,
                        RequestValidationError(response_models_ItemCreate(item)))
            ELSE Worker("build", item, <<>>, 0, [status |-> 0]))
    /\ UNCHANGED <<variant, stores, req, resp, birth, created, deleted,
                   calls, sessions, sem, task_pc>>

\* new_item = Item(id=next_id, ...)
ResponseModelsBuild(w) ==
    /\ variant = "response_models"
    /\ workers[w].pc = "build"
    /\ LET item == workers[w].item
       IN  SetWorker(w, [workers[w] EXCEPT !.pc = "append",
              !.new_item = <<Item(next_id, item.name, item.price, item.description)>>])
    /\ UNCHANGED stores

\* fake_db.append(new_item)
ResponseModelsAppend(w) ==
    /\ variant = "response_models"
    /\ workers[w].pc = "append"
    /\ fake_db' = Append(fake_db, workers[w].new_item[1])
    /\ SetWorker(w, [workers[w] EXCEPT !.pc = "respond"])
    /\ UNCHANGED <<items_db, item_id_counter, next_id>>

\* response = ItemResponse(id=next_id, ...): next_id is read again
ResponseModelsRespond(w) ==
    /\ variant = "response_models"
    /\ workers[w].pc = "respond"
    /\ LET item == workers[w].item
       IN  SetWorker(w, [workers[w] EXCEPT !.pc = "load",
              !.resp = Response(200, ItemResponse(next_id, item.name, item.price,
                                                  CreatedMessage(item.name)))])
    /\ UNCHANGED stores

\* next_id += 1: the global is read ...
ResponseModelsLoad(w) ==
    /\ variant = "response_models"
    /\ workers[w].pc = "load"
    /\ SetWorker(w, [workers[w] EXCEPT !.pc = "store", !.tmp = next_id])
    /\ UNCHANGED stores

\* ... and written; return response
ResponseModelsStore(w) ==
    /\ variant = "response_models"
    /\ workers[w].pc = "store"
    /\ next_id' = workers[w].tmp + 1
    /\ SetWorker(w, [workers[w] EXCEPT !.pc = "done"])
    /\ UNCHANGED <<items_db, item_id_counter, fake_db>>

NextCreates ==
    \/ MainAccept
    \/ ResponseModelsAccept
    \/ \E w \in DOMAIN workers : MainBuild(w)
    \/ \E w \in DOMAIN workers : MainAppend(w)
    \/ \E w \in DOMAIN workers : MainLoad(w)
    \/ \E w \in DOMAIN workers : MainStore(w)
    \/ \E w \in DOMAIN workers : ResponseModelsBuild(w)
    \/ \E w \in DOMAIN workers : ResponseModelsAppend(w)
    \/ \E w \in DOMAIN workers : ResponseModelsRespond(w)
    \/ \E w \in DOMAIN workers : ResponseModelsLoad(w)
    \/ \E w \in DOMAIN workers : ResponseModelsStore(w)

SpecCreates == Init /\ [][NextCreates]_vars

-----------------------------------------------------------------------------
(* The event loop.  The handlers of src/app are coroutines: every await on *)
(* the session (execute, commit, refresh) suspends the request and lets    *)
(* the steps of other requests run.  A request gets its session from       *)
(* get_db before its body is validated, and the session is closed when the *)
(* async with block of get_db is left, whichever way the request ends.     *)
(* The requests here are the ones that write: create, update and delete.   *)

\* requests that are in flight together
MaxCalls == 3

\* the requests address the id the first create is given
CallIds == {1}

CreateInputs == {Body("Widget", 10, <<"basic">>, 0)}

UpdateInputs ==
    { Body("Gadget", 10, <<"basic">>, 0),
      Body("Widget", 20, <<"basic">>, 0),
      Body("ab", 10, <<>>, 0) }

CallRequests ==
    {[op |-> "create", item_id |-> 0, item |-> b] : b \in CreateInputs}
    \cup {[op |-> "update", item_id |-> i, item |-> b] : i \in CallIds, b \in UpdateInputs}
    \cup {[op |-> "delete", item_id |-> i, item |-> <<>>] : i \in CallIds}

\* a session that is handed out again to every request
AsyncSessionLocal_shared(all) == 1

\* AsyncSessionLocal(): a new session object on every call
AsyncSessionLocal(all) == Len(all) + 1

\* async with ... as session: entered
Entered(all, session) ==
    [k \in 1..(IF session > Len(all) THEN session ELSE Len(all)) |->
        IF k = session THEN "open" ELSE all[k]]

\* a block that closes the session only when the request succeeded
async_with_exit_on_success(all, session, response) ==
    IF response.status >= 400 THEN all ELSE [all EXCEPT ![session] = "closed"]

\* async with: the session is closed however the block is left
async_with_exit(all, session, response) == [all EXCEPT ![session] = "closed"]

\* an exception no handler catches: the server answers 500
InternalServerError(exception) == [status |-> 500, body |-> [detail |-> exception]]

\* the columns of the UPDATE: the attributes whose value differs from the loaded one
UpdatedColumns(loaded, existing_item) ==
    {f \in {"name", "price", "description", "cost_price"} : existing_item[f] # loaded[f]}

\* UPDATE items SET <columns> WHERE id = ?
UpdateRow(row, columns, existing_item) ==
    [f \in DOMAIN row |-> IF f \in columns THEN existing_item[f] ELSE row[f]]

FirstStep(op) == IF op = "create" THEN "commit" ELSE "lookup"

SetCall(c, record) ==
    /\ calls' = [calls EXCEPT ![c] = record]
    /\ UNCHANGED <<variant, items_db, item_id_counter, fake_db, next_id, req, resp,
                   birth, created, deleted, workers, sem, task_pc>>

\* the request arrives: Depends(get_db) yields a session, then the body is validated
GetDb ==
    /\ variant = "app"
    /\ Len(calls) < MaxCalls
    /\ \E request \in CallRequests :
         LET session == AsyncSessionLocal(sessions)
             errors == IF request.op \in {"create", "update"}
                       THEN ItemCreate(request.item) ELSE {}
         IN  /\ sessions' = Entered(sessions, session)
             /\ calls' = Append(calls,
                   [op |-> request.op, item_id |-> request.item_id, item |-> request.item,
                    session |-> session, existing |-> <<>>,
                    pc |-> IF errors # {} THEN "exit" ELSE FirstStep(request.op),
                    resp |-> IF errors # {} THEN RequestValidationError(errors)
                             ELSE [status |-> 0]])
    /\ UNCHANGED <<variant, stores, req, resp, birth, created, deleted,
                   workers, sem, task_pc>>

\* update_item, delete_item:
\* await db.execute(select(ItemDB).where(ItemDB.id == item_id)); scalar_one_or_none()
Execute(c) ==
    /\ calls[c].pc = "lookup"
    /\ LET k == scalar_one_or_none(items, calls[c].item_id)
       IN  SetCall(c,
             IF k = 0
             THEN [calls[c] EXCEPT !.pc = "exit",
                     !.resp = item_not_found(items, items_id_seq, calls[c].item_id).resp]
             ELSE [calls[c] EXCEPT !.pc = "commit", !.existing = <<items[k]>>])
    /\ UNCHANGED <<items, items_id_seq, sessions>>

\* create_item: db.add(db_item); await db.commit()
CommitInsert(c) ==
    /\ calls[c].pc = "commit"
    /\ calls[c].op = "create"
    /\ LET item == calls[c].item
           db_item == ItemDB(serial_id(items, items_id_seq), item.name, item.price,
                             item.description, CostPrice(item.price), SUPPLIER_SECRET)
       IN  /\ items' = Append(items, db_item)
           /\ items_id_seq' = nextval(items_id_seq)
           /\ SetCall(c, [calls[c] EXCEPT !.pc = "refresh", !.existing = <<db_item>>])
    /\ UNCHANGED sessions

\* update_item: the attribute assignments, then await db.commit().  The
\* UPDATE names the changed attributes only; a row that is gone by now
\* matches nothing and the flush raises StaleDataError
CommitUpdate(c) ==
    /\ calls[c].pc = "commit"
    /\ calls[c].op = "update"
    /\ LET loaded == calls[c].existing[1]
           existing_item == changed_attributes(loaded, calls[c].item)
           columns == UpdatedColumns(loaded, existing_item)
           k == scalar_one_or_none(items, calls[c].item_id)
       IN  IF columns = {}
           THEN /\ SetCall(c, [calls[c] EXCEPT !.pc = "refresh"])
                /\ UNCHANGED items
           ELSE IF k = 0
           THEN /\ SetCall(c, [calls[c] EXCEPT !.pc = "exit", !.existing = <<>>,
                                  !.resp = InternalServerError("StaleDataError")])
                /\ UNCHANGED items
           ELSE /\ items' = [items EXCEPT ![k] = UpdateRow(items[k], columns, existing_item)]
                /\ SetCall(c, [calls[c] EXCEPT !.pc = "refresh",
                                  !.existing = <<existing_item>>])
    /\ UNCHANGED <<items_id_seq, sessions>>

\* delete_item: await db.delete(item); await db.commit().  A DELETE that
\* matches no row is only warned about
CommitDelete(c) ==
    /\ calls[c].pc = "commit"
    /\ calls[c].op = "delete"
    /\ LET k == scalar_one_or_none(items, calls[c].item_id)
       IN  /\ items' = IF k = 0 THEN items ELSE Remove(items, k)
           /\ SetCall(c, [calls[c] EXCEPT !.pc = "exit", !.existing = <<>>,
                              !.resp = Response(204, <<>>)])
    /\ UNCHANGED <<items_id_seq, sessions>>

\* await db.refresh(...): the row is read again; a row that is gone raises
\* InvalidRequestError
Refresh(c) ==
    /\ calls[c].pc = "refresh"
    /\ LET k == scalar_one_or_none(items, calls[c].existing[1].id)
       IN  SetCall(c,
             IF k = 0
             THEN [calls[c] EXCEPT !.pc = "exit", !.existing = <<>>,
                     !.resp = InternalServerError("InvalidRequestError")]
             ELSE [calls[c] EXCEPT !.pc = "exit", !.existing = <<>>,
                     !.resp = IF calls[c].op = "create"
                              THEN Response(201, CreateItemResponse(
                                       [item |-> ItemInPublic(items[k]),
                                        message |-> CreatedMessage(calls[c].item.name)]))
                              ELSE Response(200, ItemInPublic(ItemInPublic(items[k])))])
    /\ UNCHANGED <<items, items_id_seq, sessions>>

\* the request is over: get_db resumes after its yield and the block is left
CloseSession(c) ==
    /\ calls[c].pc = "exit"
    /\ sessions' = async_with_exit(sessions, calls[c].session, calls[c].resp)
    /\ SetCall(c, [calls[c] EXCEPT !.pc = "done"])
    /\ UNCHANGED <<items, items_id_seq>>

CallStep(c) ==
    \/ Execute(c)
    \/ CommitInsert(c)
       \/ CommitUpdate(c)
       \/ CommitDelete(c)
       \/ Refresh(c)
       \/ CloseSession(c)

NextCalls ==
    \/ GetDb
    \/ \E c \in DOMAIN calls : Execute(c)
    \/ \E c \in DOMAIN calls : CommitInsert(c)
    \/ \E c \in DOMAIN calls : CommitUpdate(c)
    \/ \E c \in DOMAIN calls : CommitDelete(c)
    \/ \E c \in DOMAIN calls : Refresh(c)
    \/ \E c \in DOMAIN calls : CloseSession(c)

SpecCalls == Init /\ [][NextCalls]_vars

\* the event loop runs every request that can go on, and the database answers
FairSpecCalls == SpecCalls /\ WF_vars(\E c \in DOMAIN calls : CallStep(c))

-----------------------------------------------------------------------------
(* src/co-async-await.py: 26 tasks share asyncio.Semaphore(3).  gather     *)
(* starts the tasks in the order A to Z; a task that finds the semaphore   *)
(* locked queues a waiter, and release hands the permit to the first       *)
(* waiter.  The delays are random, so the running tasks finish in any      *)
(* order.                                                                  *)

\* string.ascii_uppercase
NumTasks == 26

\* asyncio.Semaphore(3)
Permits == 3

Tasks == 1..NumTasks

Semaphore(value) == [value |-> value, waiters |-> <<>>]

\* waiters whose future is not done yet
Pending(s) == SelectSeq(s.waiters, LAMBDA t : task_pc[t] = "waiting")

locked(s) == s.value = 0 \/ Pending(s) # <<>>

\* a wake-up that leaves the value as it is
wake_up_next_keeping_value(s) == s

\* _wake_up_next: the first waiter that is not done gets the permit
wake_up_next(s) ==
    IF Pending(s) = <<>> THEN s ELSE [s EXCEPT !.value = s.value - 1]

Woken(s) == IF Pending(s) = <<>> THEN {} ELSE {Pending(s)[1]}

release(s) == wake_up_next([s EXCEPT !.value = s.value + 1])

InitSem ==
    /\ variant = "co-async-await"
    /\ items_db = <<>>
    /\ item_id_counter = 1
    /\ fake_db = <<>>
    /\ next_id = 1
    /\ items = <<>>
    /\ items_id_seq = 1
    /\ req = [op |-> "none"]
    /\ resp = [status |-> 0]
    /\ birth = <<>>
    /\ created = {}
    /\ deleted = {}
    /\ workers = <<>>
    /\ calls = <<>>
    /\ sessions = <<>>
    /\ sem = Semaphore(Permits)
    /\ task_pc = [t \in Tasks |-> "created"]

SemStep ==
    UNCHANGED <<variant, stores, req, resp, birth, created, deleted, workers, calls, sessions>>

\* the task's first run: async with sem; the tasks run first in the order gather made them
Acquire(t) ==
    /\ task_pc[t] = "created"
    /\ \A u \in Tasks : u < t => task_pc[u] # "created"
    /\ IF locked(sem)
       THEN /\ sem' = [sem EXCEPT !.waiters = Append(sem.waiters, t)]
            /\ task_pc' = [task_pc EXCEPT ![t] = "waiting"]
       ELSE /\ sem' = [sem EXCEPT !.value = sem.value - 1]
            /\ task_pc' = [task_pc EXCEPT ![t] = "started"]
    /\ SemStep

\* the woken task runs again: its waiter leaves the queue, STARTED is printed
Resume(t) ==
    /\ task_pc[t] = "woken"
    /\ LET s == [sem EXCEPT !.waiters = SelectSeq(sem.waiters, LAMBDA u : u # t)]
       IN  /\ sem' = IF s.value > 0 THEN wake_up_next(s) ELSE s
           /\ task_pc' = [u \in Tasks |->
                 IF u = t THEN "started"
                 ELSE IF s.value > 0 /\ u \in Woken(s) THEN "woken"
                 ELSE task_pc[u]]
    /\ SemStep

\* the sleep is over: FINISHED is printed and the block is left, releasing the semaphore
Finish(t) ==
    /\ task_pc[t] = "started"
    /\ sem' = release(sem)
    /\ task_pc' = [u \in Tasks |->
          IF u = t THEN "finished"
          ELSE IF u \in Woken(sem) THEN "woken"
          ELSE task_pc[u]]
    /\ SemStep

NextSem ==
    \/ \E t \in Tasks : Acquire(t)
    \/ \E t \in Tasks : Resume(t)
    \/ \E t \in Tasks : Finish(t)

SpecSem == InitSem /\ [][NextSem]_vars

\* the event loop runs every task that is ready, and every sleep ends
FairSpecSem == SpecSem /\ WF_vars(NextSem)

-----------------------------------------------------------------------------
(* Vocabulary of the properties *)

\* the list and the counter of the running variant
Store ==
    CASE variant = "main" -> [rows |-> items_db, seq |-> item_id_counter]
      [] variant = "response_models" -> [rows |-> fake_db, seq |-> next_id]
      [] variant = "app" -> [rows |-> items, seq |-> items_id_seq]

StoredIds == {Store.rows[k].id : k \in 1..Len(Store.rows)}

Row(item_id) == Store.rows[CHOOSE k \in 1..Len(Store.rows) : Store.rows[k].id = item_id]

\* the routes of each application
Requests(v) ==
    [op : {"create"}, item : Bodies] \cup {[op |-> "list"]}
    \cup (IF v = "main" THEN {} ELSE [op : {"get"}, id : ItemIds])
    \cup (IF v = "app"
          THEN [op : {"update"}, id : ItemIds, item : Bodies] \cup [op : {"delete"}, id : ItemIds]
          ELSE {})

Serve(v, rows, seq, request) ==
    CASE v = "app" /\ request.op = "create" -> create_item(rows, seq, request.item)
      [] v = "app" /\ request.op = "list" -> get_items(rows, seq)
      [] v = "app" /\ request.op = "get" -> get_item(rows, seq, request.id)
      [] v = "app" /\ request.op = "update" -> update_item(rows, seq, request.id, request.item)
      [] v = "app" /\ request.op = "delete" -> delete_item(rows, seq, request.id)
      [] v = "main" /\ request.op = "create" -> main_create_item(rows, seq, request.item)
      [] v = "main" /\ request.op = "list" -> main_get_items(rows, seq)
      [] v = "response_models" /\ request.op = "create" ->
            response_models_create_item(rows, seq, request.item)
      [] v = "response_models" /\ request.op = "list" -> response_models_get_items(rows, seq)
      [] v = "response_models" /\ request.op = "get" ->
            response_models_get_item(rows, seq, request.id)

InternalFields == {"cost_price", "supplier_secret"}

\* the same records with other internal values
OtherSecrets(rows) ==
    [k \in 1..Len(rows) |->
        IF InternalFields \subseteq DOMAIN rows[k]
        THEN [rows[k] EXCEPT !.cost_price = @ + 1, !.supplier_secret = "ZETA-7-OTHER"]
        ELSE rows[k]]

\* the records without their internal values
PublicPart(rows) ==
    [k \in 1..Len(rows) |-> [f \in DOMAIN rows[k] \ InternalFields |-> rows[k][f]]]

Contains(s, t) == t = "" \/ \E i \in 1..(Len(s) - Len(t) + 1) : SubSeq(s, i, i + Len(t) - 1) = t

\* the records a response body carries
BodyRecords ==
    CASE resp.status \in {0, 204, 404, 422} -> {}
      [] req.op = "list" -> {resp.body[k] : k \in 1..Len(resp.body)}
      [] req.op = "create" /\ variant = "app" -> {resp.body.item}
      [] OTHER -> {resp.body}

\* the texts a response body carries
BodyTexts ==
    CASE resp.status = 404 -> {resp.body.detail}
      [] resp.status \in {0, 204, 422} -> {}
      [] req.op = "create" /\ variant # "main" -> {resp.body.message}
      [] OTHER -> {}

\* the input breaks an Item-Create rule (spec.md 4.2)
ViolatesConstraints(item) ==
    \/ Len(item.name) < 3
    \/ ~(item.price > 0)
    \/ (item.description # <<>> /\ Len(item.description[1]) > 200)

-----------------------------------------------------------------------------
-----------------------------------------------------------------------------
(* C2: the ids create assigns start at 1 and strictly increase in the      *)
(* order the creates complete, so none is assigned twice, deletes between  *)
(* creates included; the id a create returns is the id it stored.          *)
C2_IdsStrictlyIncreasing ==
    /\ birth # <<>> => birth[1].id = 1
    /\ \A j, k \in 1..Len(birth) : j < k => birth[j].id < birth[k].id
    /\ (req.op = "create" /\ resp.status \in {200, 201}) =>
          \A r \in BodyRecords \cup (IF variant = "response_models" THEN {resp.body} ELSE {}) :
             r.id = Last(birth).id

C2_Witness ==
    /\ variant = "app"
    /\ req.op = "create"
    /\ resp.status = 201
    /\ Len(birth) = 2
    /\ 1 \in deleted
    /\ StoredIds = {2}

-----------------------------------------------------------------------------
(* C3: a create or update whose input breaks a constraint (name shorter    *)
(* than 3, price not above 0, description longer than 200) is answered     *)
(* with a validation error (422) and leaves every list, table and counter  *)
(* as it was.                                                              *)
C3_InvalidInputRejected ==
    [][(req'.op \in {"create", "update"} /\ ViolatesConstraints(req'.item))
          => (resp'.status = 422 /\ UNCHANGED stores)]_vars

\* the same, of the applications whose ItemCreate declares the constraints
C3_InvalidInputRejectedWhereDeclared ==
    [][(variant # "response_models" /\ req'.op \in {"create", "update"}
            /\ ViolatesConstraints(req'.item))
          => (resp'.status = 422 /\ UNCHANGED stores)]_vars

-----------------------------------------------------------------------------
(* C4, as claimed: an update of an id that is not stored is answered with  *)
(* not-found (404) whatever the replacement input is.                      *)
C4_UpdateAbsentAlwaysNotFound ==
    [][(req'.op = "update" /\ req'.id \notin StoredIds) => resp'.status = 404]_vars

(* C4, amended: an update of an id that is not stored is answered with     *)
(* not-found (404) naming the id when the replacement input satisfies the  *)
(* constraints, and with a validation error (422) when it does not: the    *)
(* body is validated before the lookup.                                    *)
C4_UpdateAbsentNotFoundIfValid ==
    [][(req'.op = "update" /\ req'.id \notin StoredIds) =>
          IF ViolatesConstraints(req'.item)
          THEN resp'.status = 422
          ELSE resp'.status = 404 /\ resp'.body.detail = NotFoundDetail(req'.id)]_vars

C4_Witness ==
    /\ variant = "app"
    /\ req.op = "update"
    /\ req.id \notin StoredIds
    /\ ~ViolatesConstraints(req.item)
    /\ resp.status = 404
    /\ items # <<>>

-----------------------------------------------------------------------------
(* C5: an update or a delete answered with not-found (404) leaves every    *)
(* stored record and the id counter as they were.                          *)
C5_NotFoundChangesNothing ==
    [][(req'.op \in {"update", "delete"} /\ resp'.status = 404) => UNCHANGED stores]_vars

C5_Witness ==
    /\ variant = "app"
    /\ req.op = "delete"
    /\ resp.status = 404
    /\ req.id \in deleted
    /\ items # <<>>

-----------------------------------------------------------------------------
(* C6: while an id returned by create has not been updated or deleted, a   *)
(* get of that id succeeds (200) and returns the id, name, price and       *)
(* description the create returned.                                        *)
C6_GetAfterCreate ==
    /\ variant = "app" =>
          \A c \in created :
             LET r == get_item(items, items_id_seq, c.id)
             IN  r.resp.status = 200 /\ r.resp.body = c
    /\ (req.op = "get" /\ \E c \in created : c.id = req.id) =>
          (resp.status = 200 /\ resp.body \in created)

C6_Witness ==
    /\ variant = "app"
    /\ req.op = "get"
    /\ req.id = 2
    /\ resp.status = 200
    /\ resp.body \in created
    /\ Len(items) = 2

-----------------------------------------------------------------------------
(* C7, as claimed: once a delete of an id has succeeded, every later get,  *)
(* update or delete of that id is answered with not-found (404), whatever  *)
(* was served in between.                                                  *)
C7_DeletedStaysNotFound ==
    (req.op \in {"get", "update", "delete"} /\ req.id \in deleted /\ resp.status # 204)
        => resp.status = 404

(* C7, amended: once a delete of an id has succeeded, every later get or   *)
(* delete of that id, and every later update of it whose replacement input *)
(* satisfies the constraints, is answered with not-found (404); an update  *)
(* whose input breaks a constraint is answered with a validation error     *)
(* (422).  The id is never stored again.                                   *)
C7_DeletedStaysNotFoundIfValid ==
    /\ (req.op \in {"get", "update", "delete"} /\ req.id \in deleted /\ resp.status # 204)
          => IF req.op = "update" /\ ViolatesConstraints(req.item)
             THEN resp.status = 422
             ELSE resp.status = 404
    /\ deleted \cap StoredIds = {}

C7_Witness ==
    /\ variant = "app"
    /\ req.op = "delete"
    /\ req.id = 1
    /\ resp.status = 404
    /\ 1 \in deleted
    /\ StoredIds = {2}

-----------------------------------------------------------------------------
(* C8: in every variant that serves get-by-id, a get of an id that is not  *)
(* stored is answered with not-found (404) and a message that names the    *)
(* requested id.                                                           *)
C8_GetAbsentNamesId ==
    (req.op = "get" /\ req.id \notin StoredIds)
        => (resp.status = 404 /\ Contains(resp.body.detail, ToString(req.id)))

\* the same, of the relational variant alone
C8_GetAbsentNamesIdApp ==
    (variant = "app" /\ req.op = "get" /\ req.id \notin StoredIds)
        => (resp.status = 404 /\ Contains(resp.body.detail, ToString(req.id)))

-----------------------------------------------------------------------------
(* C9: after a successful update the stored record has the name, price,    *)
(* description and stock_quantity of the replacement input.                *)
C9_UpdateReplacesClientFields ==
    (req.op = "update" /\ resp.status = 200) =>
        /\ Row(req.id).name = req.item.name
        /\ Row(req.id).price = req.item.price
        /\ Row(req.id).description = req.item.description
        /\ Row(req.id).stock_quantity = req.item.stock_quantity

\* the same without stock_quantity
C9_UpdateReplacesNamePriceDescription ==
    (req.op = "update" /\ resp.status = 200) =>
        /\ Row(req.id).name = req.item.name
        /\ Row(req.id).price = req.item.price
        /\ Row(req.id).description = req.item.description

-----------------------------------------------------------------------------
(* C10: every stored record carries an id that a create assigned, with the *)
(* supplier_secret that create stored with it; no two stored records share *)
(* an id; a successful update keeps and returns the id it was asked for.   *)
HasSecret == variant \in {"app", "main"}

C10_IdAndSecretPreserved ==
    /\ \A k \in 1..Len(Store.rows) :
          \E b \in 1..Len(birth) :
             /\ birth[b].id = Store.rows[k].id
             /\ HasSecret => birth[b].supplier_secret = Store.rows[k].supplier_secret
    /\ \A j, k \in 1..Len(Store.rows) : Store.rows[j].id = Store.rows[k].id => j = k
    /\ (req.op = "update" /\ resp.status = 200) =>
          (resp.body.id = req.id /\ req.id \in StoredIds)

C10_Witness ==
    /\ variant = "app"
    /\ req.op = "update"
    /\ resp.status = 200
    /\ Row(req.id).name # birth[req.id].name
    /\ Row(req.id).supplier_secret = birth[req.id].supplier_secret

-----------------------------------------------------------------------------
(* Vocabulary of the properties, continued *)

PublicFields == {"id", "name", "price", "description"}

\* the Item-Public projection of a stored record (spec.md section 3)
Projection(row) == [f \in PublicFields |-> row[f]]

\* the projections of the stored records, in the order their creates completed
InInsertionOrder ==
    LET ids == [b \in 1..Len(birth) |-> birth[b].id]
        kept == SelectSeq(ids, LAMBDA i : i \in StoredIds)
    IN  [k \in 1..Len(kept) |-> Projection(Row(kept[k]))]

-----------------------------------------------------------------------------
(* C12: a list request leaves every list, table and counter as it was and  *)
(* returns one Item-Public projection per stored record, in the order the  *)
(* records were inserted (the empty sequence when none are stored).        *)
C12_ListInInsertionOrder ==
    [][req'.op = "list" =>
          (UNCHANGED stores /\ resp'.status = 200 /\ resp'.body = InInsertionOrder')]_vars

\* the same, of the in-memory lists alone
C12_ListInInsertionOrderInMemory ==
    [][(variant # "app" /\ req'.op = "list") =>
          (UNCHANGED stores /\ resp'.status = 200 /\ resp'.body = InInsertionOrder')]_vars

\* the same records in some order, whatever the variant
C12_ListReturnsStoredRecords ==
    [][req'.op = "list" =>
          /\ UNCHANGED stores
          /\ resp'.status = 200
          /\ Len(resp'.body) = Len(InInsertionOrder')
          /\ {resp'.body[k] : k \in 1..Len(resp'.body)}
                = {InInsertionOrder'[k] : k \in 1..Len(InInsertionOrder')}]_vars

-----------------------------------------------------------------------------
(* C13: in every variant, the response of a successful create is made of   *)
(* the id, name, price and description of the record it stored and of a    *)
(* message that contains the name of the item.                             *)
C13_CreateResponse ==
    (req.op = "create" /\ resp.status \in {200, 201}) =>
        /\ "message" \in DOMAIN resp.body
        /\ Contains(resp.body.message, req.item.name)
        /\ LET item == IF "item" \in DOMAIN resp.body THEN resp.body.item ELSE resp.body
           IN  /\ PublicFields \subseteq DOMAIN item
               /\ \A f \in PublicFields : item[f] = Last(birth)[f]

\* the same, of the relational variant alone
C13_CreateResponseApp ==
    (variant = "app" /\ req.op = "create" /\ resp.status \in {200, 201}) =>
        /\ "message" \in DOMAIN resp.body
        /\ Contains(resp.body.message, req.item.name)
        /\ resp.body.item = Projection(Last(birth))

-----------------------------------------------------------------------------
(* C14: whatever the interleaving of concurrent creates, no two of them    *)
(* are given the same id, the id a create returns is the id it stored, and *)
(* every record a create appended is in the list.                          *)
Assigned == {w \in DOMAIN workers : workers[w].new_item # <<>>}

Appended == {w \in Assigned : workers[w].pc \notin {"build", "append"}}

C14_ConcurrentCreatesAtomic ==
    /\ \A v, w \in Assigned : v # w => workers[v].new_item[1].id # workers[w].new_item[1].id
    /\ \A w \in Assigned :
          (workers[w].pc = "done" /\ variant = "response_models")
              => workers[w].resp.body.id = workers[w].new_item[1].id
    /\ Len(Store.rows) = Cardinality(Appended)
    /\ \A w \in Appended : \E k \in 1..Len(Store.rows) : Store.rows[k] = workers[w].new_item[1]

\* no record is lost, duplicate ids or not
C14_NoRecordLost ==
    /\ Len(Store.rows) = Cardinality(Appended)
    /\ \A w \in Appended : \E k \in 1..Len(Store.rows) : Store.rows[k] = workers[w].new_item[1]

-----------------------------------------------------------------------------
(* C11: in every reachable state, the states reached by interleaved        *)
(* updates of one id included, every stored item has cost_price equal to   *)
(* 0.6 times its price.                                                    *)
C11_CostPriceDerived ==
    /\ \A k \in 1..Len(items) : items[k].cost_price = CostPrice(items[k].price)
    /\ \A k \in 1..Len(items_db) : items_db[k].cost_price = CostPrice(items_db[k].price)

\* the calls of an operation that have got past the given steps
CallsOf(op, pcs) == {c \in DOMAIN calls : calls[c].op = op /\ calls[c].pc \in pcs}

\* two updates of one row that both loaded it before either committed, both committed
C11_Witness ==
    /\ \E c, d \in CallsOf("update", {"refresh", "exit", "done"}) :
          /\ c # d
          /\ calls[c].item.price # calls[d].item.price
          /\ calls[c].resp.status \in {0, 200}
          /\ calls[d].resp.status \in {0, 200}
    /\ \E k \in 1..Len(items) : items[k].name = "Gadget" /\ items[k].price = 20

-----------------------------------------------------------------------------
(* C15: an update replaces the record atomically: once the concurrent      *)
(* updates of an id have all completed, the stored name, price,            *)
(* description and cost_price all come from one single update request.     *)
FromRequest(row, item) ==
    /\ row.name = item.name
    /\ row.price = item.price
    /\ row.description = item.description
    /\ row.cost_price = CostPrice(item.price)

C15_UpdateAtomic ==
    \A k \in 1..Len(items) :
        LET updates == {c \in DOMAIN calls :
                           calls[c].op = "update" /\ calls[c].item_id = items[k].id}
        IN  (/\ \A c \in updates : calls[c].pc = "done"
             /\ \E c \in updates : calls[c].resp.status = 200)
            => \E c \in updates : calls[c].resp.status = 200 /\ FromRequest(items[k], calls[c].item)

-----------------------------------------------------------------------------
(* C16: whatever the interleaving of updates and deletes of one id, each   *)
(* of them ends in success or in a not-found answer, never in an unhandled *)
(* storage failure.                                                        *)
C16_NoUnhandledStorageFailure ==
    \A c \in DOMAIN calls :
        calls[c].op \in {"update", "delete"} => calls[c].resp.status \in {0, 200, 204, 404, 422}

\* a delete whose row another delete removed between its lookup and its commit does not fail
C16_DeleteNeverFails ==
    \A c \in DOMAIN calls :
        calls[c].op = "delete" => calls[c].resp.status \in {0, 204, 404}

-----------------------------------------------------------------------------
(* C17: every session acquired for a request is eventually closed, on      *)
(* every exit path of the request: success, validation failure, not-found  *)
(* and a storage operation that raises.                                    *)
C17_SessionEventuallyClosed ==
    <>[](\A k \in DOMAIN sessions : sessions[k] = "closed")

\* the sessions of a request that succeeded and of one whose commit raised are closed
C17_Witness ==
    /\ \E c \in DOMAIN calls :
          /\ calls[c].pc = "done"
          /\ calls[c].resp.status = 500
          /\ sessions[calls[c].session] = "closed"
    /\ \E c \in DOMAIN calls :
          /\ calls[c].pc = "done"
          /\ calls[c].resp.status = 204
          /\ sessions[calls[c].session] = "closed"

-----------------------------------------------------------------------------
(* C18: one request, one session: every request has a session of its own,  *)
(* no session is used by two requests, also when the requests overlap, and *)
(* a session that was closed is not given to a later request.              *)
C18_OneRequestOneSession ==
    \A c \in DOMAIN calls :
        /\ calls[c].session \in DOMAIN sessions
        /\ calls[c].pc # "done" => sessions[calls[c].session] = "open"
        /\ \A d \in DOMAIN calls : c # d => calls[c].session # calls[d].session

\* a request arrives while one is in flight and after one has ended
C18_Witness ==
    \E c, d, e \in DOMAIN calls :
        /\ calls[c].pc = "done" /\ sessions[calls[c].session] = "closed"
        /\ calls[d].pc = "commit"
        /\ calls[e].pc \in {"lookup", "commit"}
        /\ c < d /\ d < e

-----------------------------------------------------------------------------
(* C20: for each id, at most one of the delete requests for it reports     *)
(* success (204), whatever their interleaving; the others report not-found.*)
C20_OneDeleteSucceeds ==
    \A c, d \in CallsOf("delete", {"exit", "done"}) :
        (c # d /\ calls[c].item_id = calls[d].item_id)
            => ~(calls[c].resp.status = 204 /\ calls[d].resp.status = 204)

\* the row is removed once
C20_RowRemovedOnce ==
    \A k, l \in 1..Len(items) : k # l => items[k].id # items[l].id

-----------------------------------------------------------------------------
(* C19: in the semaphore demo at most 3 of the 26 tasks are between        *)
(* STARTED and FINISHED at any moment, whatever the interleaving and the   *)
(* delays, and every task eventually starts and finishes.                  *)
Started == {t \in DOMAIN task_pc : task_pc[t] = "started"}

C19_AtMostThreeAndAllFinish ==
    /\ [](Cardinality(Started) <= 3)
    /\ \A t \in Tasks : <>[](t \in DOMAIN task_pc /\ task_pc[t] = "finished")

\* three tasks are running, others wait, and some have already finished
C19_Witness ==
    /\ Cardinality(Started) = 3
    /\ \E t \in DOMAIN task_pc : task_pc[t] = "waiting"
    /\ \E t \in DOMAIN task_pc : task_pc[t] = "finished"

-----------------------------------------------------------------------------
(* C21: in the relational application the stock_quantity a client sends in *)
(* a create or an update never reaches the table: every stored item has    *)
(* stock_quantity 0, the column default, in every reachable state.         *)
C21_StockQuantityStaysDefault ==
    variant = "app" => \A k \in 1..Len(items) : items[k].stock_quantity = 0

\* a row created from a body with stock_quantity 5 has just been updated
\* with a body with stock_quantity 5, and is stored with stock_quantity 0
C21_Witness ==
    /\ variant = "app"
    /\ req.op = "update"
    /\ resp.status = 200
    /\ req.item.stock_quantity = 5
    /\ birth[req.id].name = "Gadget"
    /\ \E b \in ValidBodies : b.name = "Gadget" /\ b.stock_quantity = 5
    /\ \A b \in Bodies : b.name = "Gadget" => b.stock_quantity = 5
    /\ Row(req.id).stock_quantity = 0
====
